---------------------------- MODULE Spec2Model ----------------------------
(***************************************************************************)
(* Two-point flux approximation (porepy/numerics/fv/tpfa.py): the          *)
(* single-domain discretisation (Tpfa), the mortar coupling (TpfaCoupling) *)
(* and the direct coupling of a fracture network (TpfaCouplingDFN).        *)
(*                                                                         *)
(* Numbers are exact rationals <<numerator, denominator>> in lowest terms   *)
(* with a positive denominator; the code's IEEE doubles agree with them up  *)
(* to rounding.  Arrays and matrices are indexed from 0 as in the code.     *)
(***************************************************************************)
EXTENDS Integers, Sequences, FiniteSets

(***************************************************************************)
(* Bounds of the model.                                                     *)
(***************************************************************************)
MaxCells == 3      \* 1-D Cartesian grids have 1..MaxCells cells
MaxLinks == 2      \* a face-to-cell incidence map has at most MaxLinks entries
MaxKn == 2         \* the normal permeability kn ranges over 1..MaxKn

(***************************************************************************)
(* Rational arithmetic (numpy's float arithmetic, made exact).              *)
(***************************************************************************)
Abs(x) == IF x < 0 THEN -x ELSE x

RECURSIVE GCD(_, _)
GCD(a, b) == IF b = 0 THEN a ELSE GCD(b, a % b)

R(n, d) ==
    IF d = 1 THEN <<n, 1>>
    ELSE LET s == IF d < 0 THEN -1 ELSE 1
             k == GCD(Abs(n), Abs(d))
         IN  <<(s * n) \div k, (s * d) \div k>>

Zero == <<0, 1>>
One == <<1, 1>>
I2R(i) == <<i, 1>>

RAdd(x, y) ==
    IF x[1] = 0 THEN y
    ELSE IF y[1] = 0 THEN x
    ELSE IF x[2] = y[2] THEN R(x[1] + y[1], x[2])
    ELSE R(x[1] * y[2] + y[1] * x[2], x[2] * y[2])
RNeg(x) == <<-x[1], x[2]>>
RMul(x, y) ==
    IF x[1] = 0 \/ y[1] = 0 THEN Zero
    ELSE IF x[2] = 1 /\ y[2] = 1 THEN <<x[1] * y[1], 1>>
    ELSE R(x[1] * y[1], x[2] * y[2])
RInv(x) == R(x[2], x[1])
RDiv(x, y) == RMul(x, RInv(y))
RAbs(x) == <<Abs(x[1]), x[2]>>

IsSquare(n) == \E r \in 0..n : r * r = n
ISqrt(n) == CHOOSE r \in 0..n : r * r = n
\* np.linalg.norm's square root, exact on the squares of rationals
RSqrt(x) == <<ISqrt(x[1]), ISqrt(x[2])>>
RIsSquare(x) == x[1] >= 0 /\ IsSquare(x[1]) /\ IsSquare(x[2])

\* sum of f[i] over the integer range lo..hi (empty when hi < lo)
RECURSIVE RSum(_, _, _)
RSum(f(_), lo, hi) == IF hi < lo THEN Zero ELSE RAdd(RSum(f, lo, hi - 1), f(hi))

(***************************************************************************)
(* Vectors with three components (the first axis of the geometry arrays)    *)
(* and 3 x 3 tensors, kept as integer components c over one denominator d.  *)
(***************************************************************************)
Vec(x, y, z, d) == [c |-> <<x, y, z>>, d |-> d]
VSub(u, v) == [c |-> [i \in 1..3 |-> u.c[i] * v.d - v.c[i] * u.d], d |-> u.d * v.d]
\* the vector scaled by the rational a
VScale(a, u) == [c |-> [i \in 1..3 |-> a[1] * u.c[i]], d |-> a[2] * u.d]
VDot(u, v) ==
    R(u.c[1] * v.c[1] + u.c[2] * v.c[2] + u.c[3] * v.c[3], u.d * v.d)
\* (perm * n).sum(axis=1): the tensor (rows K.c over K.d) contracted with n
Contract(K, n) ==
    [c |-> [i \in 1..3 |-> K.c[i][1] * n.c[1] + K.c[i][2] * n.c[2]
                           + K.c[i][3] * n.c[3]],
     d |-> K.d * n.d]

(***************************************************************************)
(* Dense stand-ins for scipy.sparse matrices: [kind, nr, nc, v] with        *)
(* v[i][j] the entry of row i and column j.                                 *)
(***************************************************************************)
Mat(nr, nc, entry(_, _)) ==
    [kind |-> "matrix", nr |-> nr, nc |-> nc,
     v |-> [i \in 0..(nr - 1) |-> [j \in 0..(nc - 1) |-> entry(i, j)]]]

Absent == [kind |-> "absent", nr |-> 0, nc |-> 0, v |-> <<>>]
\* a Python scalar stored in the record
Scalar(x) == [kind |-> "scalar", nr |-> 0, nc |-> 0, v |-> <<x>>]
\* the outcome of a product whose shapes do not agree (scipy raises ValueError)
ShapeError == [kind |-> "error", nr |-> 0, nc |-> 0, v |-> <<>>]

ZeroMat(nr, nc) == LET e(i, j) == Zero IN Mat(nr, nc, e)
Transpose(A) == LET e(i, j) == A.v[j][i] IN Mat(A.nc, A.nr, e)
MatNeg(A) == LET e(i, j) == RNeg(A.v[i][j]) IN Mat(A.nr, A.nc, e)
MatAdd(A, B) ==
    IF A.nr # B.nr \/ A.nc # B.nc THEN ShapeError
    ELSE LET e(i, j) == RAdd(A.v[i][j], B.v[i][j]) IN Mat(A.nr, A.nc, e)
MatSub(A, B) == MatAdd(A, MatNeg(B))
MatMul(A, B) ==
    IF A.kind # "matrix" \/ B.kind # "matrix" \/ A.nc # B.nr THEN ShapeError
    ELSE LET e(i, j) == LET term(k) == RMul(A.v[i][k], B.v[k][j])
                        IN  RSum(term, 0, A.nc - 1)
         IN  Mat(A.nr, B.nc, e)
\* sps.diags(d) for an array d over 0..n-1
Diags(n, d) == LET e(i, j) == IF i = j THEN d[i] ELSE Zero IN Mat(n, n, e)
\* a one-column matrix for an array over 0..n-1
Col(n, x) == LET e(i, j) == x[i] IN Mat(n, 1, e)

(***************************************************************************)
(* Grids (porepy.grids.grid.Grid, consumed read-only): dimension, counts,   *)
(* the signed face-cell incidence cell_faces[f][c], and the geometry.       *)
(***************************************************************************)
\* CartGrid([n]): n unit cells on the x axis; a cell's left face has sign -1
Cart1D(n) ==
    [name |-> "cart1d", dim |-> 1, num_cells |-> n, num_faces |-> n + 1,
     cell_faces |-> [f \in 0..n |-> [c \in 0..(n - 1) |->
                        IF f = c + 1 THEN 1 ELSE IF f = c THEN -1 ELSE 0]],
     face_normals |-> [f \in 0..n |-> Vec(1, 0, 0, 1)],
     face_centers |-> [f \in 0..n |-> Vec(f, 0, 0, 1)],
     cell_centers |-> [c \in 0..(n - 1) |-> Vec(2 * c + 1, 0, 0, 2)]]

\* Two unit cells on the x axis split by a point fracture at x = 1: the face
\* at x = 1 is doubled (faces 1 and 3), so all four faces are boundary faces
Split1D ==
    [name |-> "split1d", dim |-> 1, num_cells |-> 2, num_faces |-> 4,
     cell_faces |-> [f \in 0..3 |-> [c \in 0..1 |->
                        IF <<f, c>> \in {<<1, 0>>, <<2, 1>>} THEN 1
                        ELSE IF <<f, c>> \in {<<0, 0>>, <<3, 1>>} THEN -1 ELSE 0]],
     face_normals |-> [f \in 0..3 |-> Vec(1, 0, 0, 1)],
     face_centers |-> [f \in 0..3 |->
                          Vec(IF f = 3 THEN 1 ELSE f, 0, 0, 1)],
     cell_centers |-> [c \in 0..1 |-> Vec(2 * c + 1, 0, 0, 2)]]

\* The unit square cut along its diagonal into two triangles: cell 0 below
\* the diagonal, cell 1 above; faces 0..3 are the bottom, right, top and left
\* edges, face 4 the diagonal.  Normals carry the face area as their length.
Tri2D ==
    [name |-> "tri2d", dim |-> 2, num_cells |-> 2, num_faces |-> 5,
     cell_faces |-> [f \in 0..4 |-> [c \in 0..1 |->
                        IF <<f, c>> \in {<<1, 0>>, <<2, 1>>, <<4, 1>>} THEN 1
                        ELSE IF <<f, c>> \in {<<0, 0>>, <<3, 1>>, <<4, 0>>} THEN -1
                        ELSE 0]],
     face_normals |-> [f \in 0..4 |->
                          IF f \in {0, 2} THEN Vec(0, 1, 0, 1)
                          ELSE IF f \in {1, 3} THEN Vec(1, 0, 0, 1)
                          ELSE Vec(1, -1, 0, 1)],
     face_centers |-> [f \in 0..4 |->
                          IF f = 0 THEN Vec(1, 0, 0, 2)
                          ELSE IF f = 1 THEN Vec(2, 1, 0, 2)
                          ELSE IF f = 2 THEN Vec(1, 2, 0, 2)
                          ELSE IF f = 3 THEN Vec(0, 1, 0, 2)
                          ELSE Vec(1, 1, 0, 2)],
     cell_centers |-> [c \in 0..1 |->
                          IF c = 0 THEN Vec(2, 1, 0, 3)
                          ELSE Vec(1, 2, 0, 3)]]

\* PointGrid: a single cell without extent (a fracture intersection)
PointGrid ==
    [name |-> "point", dim |-> 0, num_cells |-> 1, num_faces |-> 1,
     cell_faces |-> [f \in 0..0 |-> [c \in 0..0 |-> 1]],
     face_normals |-> [f \in 0..0 |-> Vec(0, 0, 0, 1)],
     face_centers |-> [f \in 0..0 |-> Vec(0, 0, 0, 1)],
     cell_centers |-> [c \in 0..0 |-> Vec(0, 0, 0, 1)]]

Grids == {Cart1D(n) : n \in 1..MaxCells} \cup {Split1D, Tri2D, PointGrid}

Faces(g) == 0..(g.num_faces - 1)
Cells(g) == 0..(g.num_cells - 1)
CellsOf(g, f) == {c \in Cells(g) : g.cell_faces[f][c] # 0}

\* g.get_boundary_faces(): the faces with a single adjacent cell
get_boundary_faces(g) == {f \in Faces(g) : Cardinality(CellsOf(g, f)) = 1}

\* Tpfa.ndof: the number of cells
ndof(g) == g.num_cells

\* fvutils.scalar_divergence(g): the signed faces-to-cells map, cells x faces
scalar_divergence(g) ==
    LET e(c, f) == I2R(g.cell_faces[f][c]) IN Mat(g.num_cells, g.num_faces, e)

\* g.cell_faces as a matrix, faces x cells
CellFacesMat(g) ==
    LET e(f, c) == I2R(g.cell_faces[f][c]) IN Mat(g.num_faces, g.num_cells, e)

(***************************************************************************)
(* sps.find(g.cell_faces): the non-zero entries <<fi, ci, sgn>> of the      *)
(* column-compressed incidence, column (cell) by column, rows ascending.    *)
(***************************************************************************)
RECURSIVE FindFrom(_, _, _)
FindFrom(g, c, f) ==
    IF c >= g.num_cells THEN <<>>
    ELSE IF f >= g.num_faces THEN FindFrom(g, c + 1, 0)
    ELSE IF g.cell_faces[f][c] # 0
         THEN <<<<f, c, g.cell_faces[f][c]>>>> \o FindFrom(g, c, f + 1)
         ELSE FindFrom(g, c, f + 1)
Find(g) == FindFrom(g, 0, 0)

\* np.unique(faces, return_index=True)[1]: for each face, the position of its
\* first occurrence in the find order
FirstIndex(fnd, f) == CHOOSE e \in 1..Len(fnd) :
    fnd[e][1] = f /\ \A e2 \in 1..(e - 1) : fnd[e2][1] # f

(***************************************************************************)
(* State: one subdomain grid g with its record data (data['param'] is kept  *)
(* apart as param), the lower-dimensional grid g_l, the interface record    *)
(* data_edge, and the last call with what it returned.                      *)
(***************************************************************************)
VARIABLES g, g_l, param, data, data_edge, call, ret

vars == <<g, g_l, param, data, data_edge, call, ret>>

\* an optional argument: None, or a value
None == [isNone |-> TRUE, val |-> <<>>]
Some(x) == [isNone |-> FALSE, val |-> x]

(***************************************************************************)
(* Tpfa.discretize, tpfa.py lines 146-267.                                  *)
(***************************************************************************)
\* lines 196-223: the half-transmissibility of entry e of the find order
t_face_no_dist(gr, par, aavatsmark, fnd, e) ==
    LET f == fnd[e][1]
        c == fnd[e][2]
        sgn == fnd[e][3]
        n0 == IF par.aperture.isNone THEN gr.face_normals[f]
              ELSE VScale(par.aperture.val[c], gr.face_normals[f])
        n == VScale(I2R(sgn), n0)
        perm == par.tensor[c]
        fc_cc == VSub(gr.face_centers[f], gr.cell_centers[c])
        nk == Contract(perm, n)
    IN  IF aavatsmark
        THEN RSqrt(VDot(nk, nk))
        ELSE VDot(nk, fc_cc)

t_face(gr, par, aavatsmark, fnd, e) ==
    LET f == fnd[e][1]
        c == fnd[e][2]
        sgn == fnd[e][3]
        n0 == IF par.aperture.isNone THEN gr.face_normals[f]
              ELSE VScale(par.aperture.val[c], gr.face_normals[f])
        n == VScale(I2R(sgn), n0)
        perm == par.tensor[c]
        fc_cc == VSub(gr.face_centers[f], gr.cell_centers[c])
        nk == Contract(perm, n)
    IN  IF aavatsmark
        THEN RDiv(RSqrt(VDot(nk, nk)), RSqrt(VDot(fc_cc, fc_cc)))
        ELSE RDiv(VDot(nk, fc_cc), VDot(fc_cc, fc_cc))

\* np.bincount(fi, weights=w)[f] for an array w over the find order
Bincount(fnd, w, f) ==
    LET term(e) == IF fnd[e][1] = f THEN w[e] ELSE Zero
    IN  RSum(term, 1, Len(fnd))

\* line 226: the harmonic average over the entries of face f
ArithmeticSum(fnd, tf, f) == Bincount(fnd, tf, f)

HarmonicMean(fnd, tf, f) ==
    RInv(Bincount(fnd, [e \in DOMAIN tf |-> RInv(tf[e])], f))

\* lines 186-192: is_not_active[f]
is_not_active(faces, f) == IF faces.isNone THEN FALSE ELSE f \notin faces.val

\* lines 243-245: the sign of the k-th boundary face, read from the data of
\* the row-sliced incidence in the order argsort gives its row indices
Rank(S, x) == Cardinality({y \in S : y < x})

bndr_sgn(gr, fnd, k) ==
    LET bndr_ind == get_boundary_faces(gr)
        InBndr(e) == e[1] \in bndr_ind
        sub == SelectSeq(fnd, InBndr)
        indices == [p \in 1..Len(sub) |-> Rank(bndr_ind, sub[p][1])]
        sort_id == CHOOSE p \in 1..Len(sub) :
            Cardinality({q \in 1..Len(sub) :
                indices[q] < indices[p] \/ (indices[q] = indices[p] /\ q < p)}) = k
    IN  sub[sort_id][3]

\* lines 234-237: t_b before it is restricted to the boundary faces
t_b_neu_bad(bnd, t, f) ==
    IF bnd.is_neu[f] THEN RNeg(t[f]) ELSE IF bnd.is_dir[f] THEN RNeg(t[f]) ELSE Zero

t_b(bnd, t, f) ==
    IF bnd.is_neu[f] THEN One ELSE IF bnd.is_dir[f] THEN RNeg(t[f]) ELSE Zero

\* line 238: the transmissibilities that enter the flux matrix
t_flux(bnd, faces, t, f) ==
    IF bnd.is_neu[f] \/ is_not_active(faces, f) THEN Zero ELSE t[f]

MaxOf(S) == CHOOSE x \in S : \A y \in S : y <= x

\* the record after the dimension-0 branch, lines 182-185
discretize_point(d) ==
    [d EXCEPT !.flux = ZeroMat(1, 1), !.bound_flux = Scalar(Zero)]

\* the record after lines 186-267
discretize_grid(gr, d, par, faces) ==
    LET bnd == par.bc
        fnd == Find(gr)
        E == 1..Len(fnd)
        aav == d.Aavatsmark_transmissibilities
        tf == [e \in E |-> t_face(gr, par, aav, fnd, e)]
        t == [f \in Faces(gr) |-> HarmonicMean(fnd, tf, f)]
        t_full == t
        bndr_ind == get_boundary_faces(gr)
        tb == [f \in bndr_ind |->
                  RMul(t_b(bnd, t, f), I2R(bndr_sgn(gr, fnd, Rank(bndr_ind, f))))]
        tfl == [f \in Faces(gr) |-> t_flux(bnd, faces, t, f)]
        nr == 1 + MaxOf({fnd[e][1] : e \in E})
        nc == 1 + MaxOf({fnd[e][2] : e \in E})
        fluxEntry(i, j) ==
            LET term(e) == IF fnd[e][1] = i /\ fnd[e][2] = j
                           THEN RMul(tfl[i], I2R(fnd[e][3])) ELSE Zero
            IN  RSum(term, 1, Len(fnd))
        boundEntry(i, j) == IF i = j /\ i \in bndr_ind THEN tb[i] ELSE Zero
        cellEntry(i, j) ==
            LET term(e) == IF fnd[e][1] = i /\ fnd[e][2] = j /\ bnd.is_neu[i]
                           THEN One ELSE Zero
            IN  RSum(term, 1, Len(fnd))
        v_face == [f \in Faces(gr) |->
                      IF bnd.is_neu[f] THEN RNeg(RInv(t_full[f]))
                      ELSE IF bnd.is_dir[f] THEN One ELSE Zero]
        faceEntry(i, j) == IF i = j THEN v_face[i] ELSE Zero
    IN  [d EXCEPT !.flux = Mat(nr, nc, fluxEntry),
                  !.bound_flux = Mat(gr.num_faces, gr.num_faces, boundEntry),
                  !.bound_pressure_cell = Mat(gr.num_faces, gr.num_cells, cellEntry),
                  !.bound_pressure_face = Mat(gr.num_faces, gr.num_faces, faceEntry)]

discretize_falls_through(gr, d, par, faces) ==
    IF gr.dim = 0
    THEN [discretize_point(d) EXCEPT !.bound_pressure_cell = ZeroMat(1, 1),
                                     !.bound_pressure_face = ZeroMat(1, 1)]
    ELSE discretize_grid(gr, d, par, faces)

discretize(gr, d, par, faces) ==
    IF gr.dim = 0 THEN discretize_point(d) ELSE discretize_grid(gr, d, par, faces)

(***************************************************************************)
(* Tpfa.rhs and Tpfa.matrix_rhs, tpfa.py lines 96-142.                      *)
(***************************************************************************)
\* the * of scipy.sparse: a matrix product, or a scaling by a Python scalar
Times(A, B) ==
    IF A.kind = "matrix" /\ B.kind = "scalar"
    THEN LET e(i, j) == RMul(A.v[i][j], B.v[1]) IN Mat(A.nr, A.nc, e)
    ELSE MatMul(A, B)

\* lines 141-142
rhs_no_minus(gr, bound_flux, bc_val) ==
    Times(Times(Transpose(CellFacesMat(gr)), bound_flux), Col(gr.num_faces, bc_val))

rhs(gr, bound_flux, bc_val) ==
    LET div == Transpose(CellFacesMat(gr))
    IN  Times(Times(MatNeg(div), bound_flux), Col(gr.num_faces, bc_val))

NoRet == [status |-> "none", M |-> Absent, rhs |-> Absent, cc |-> <<>>, out |-> <<>>]
Failure(e) == [NoRet EXCEPT !.status = e]
KeyError == Failure("KeyError")

\* lines 121-131: the record and the returned value of matrix_rhs
matrix_rhs_defaults_missing(gr, d, par, faces, disc) ==
    LET d1 == IF disc \/ d.flux.kind = "absent" \/ d.bound_flux.kind = "absent"
              THEN discretize(gr, d, par, None) ELSE d
    IN  [data |-> d1,
         ret |-> [status |-> "ok",
                  M |-> Times(scalar_divergence(gr), d1.flux),
                  rhs |-> rhs(gr, d1.bound_flux, par.bc_val),
                  cc |-> <<>>, out |-> <<>>]]

matrix_rhs(gr, d, par, faces, disc) ==
    LET div == scalar_divergence(gr)
        d1 == IF disc THEN discretize(gr, d, par, None) ELSE d
    IN  IF d1.flux.kind = "absent" \/ d1.bound_flux.kind = "absent"
        THEN [data |-> d1, ret |-> KeyError]
        ELSE [data |-> d1,
              ret |-> [status |-> "ok",
                       M |-> Times(div, d1.flux),
                       rhs |-> rhs(gr, d1.bound_flux, par.bc_val),
                       cc |-> <<>>, out |-> <<>>]]

(***************************************************************************)
(* Inputs: the parameters a caller may attach to a grid.                    *)
(***************************************************************************)
Sym3(kxx, kxy, kyy, kzz) ==
    [c |-> <<<<kxx, kxy, 0>>, <<kxy, kyy, 0>>, <<0, 0, kzz>>>>, d |-> 1]

\* cell-wise permeability tensors: the identity; isotropic, alternating
\* between 1 and 2; and a symmetric positive definite anisotropic tensor
Tensors(gr) ==
    {[c \in Cells(gr) |-> Sym3(1, 0, 1, 1)],
     [c \in Cells(gr) |-> Sym3(1 + (c % 2), 0, 1 + (c % 2), 1 + (c % 2))],
     [c \in Cells(gr) |-> IF gr.dim = 2 THEN Sym3(1, -3, 10, 1) ELSE Sym3(3, 4, 6, 1)]}

\* boundary conditions: every boundary face is Dirichlet or Neumann, the
\* other faces carry no label
BoundaryConditions(gr) ==
    {[is_dir |-> [f \in Faces(gr) |-> f \in D],
      is_neu |-> [f \in Faces(gr) |-> f \in get_boundary_faces(gr) \ D]] :
        D \in {S \in SUBSET get_boundary_faces(gr) :
                  Cardinality(S) <= 1 \/ S = get_boundary_faces(gr)}}

BcVals(gr) ==
    {[f \in Faces(gr) |-> IF f = 0 THEN One ELSE Zero],
     [f \in Faces(gr) |-> IF f \in get_boundary_faces(gr) THEN I2R(f + 2) ELSE Zero]}

Apertures(gr) == {None, Some([c \in Cells(gr) |-> I2R(c + 1)])}

Params(gr) ==
    [tensor : Tensors(gr), bc : BoundaryConditions(gr), bc_val : BcVals(gr),
     aperture : Apertures(gr)]

\* the active-face subsets a caller may pass: none, or all faces but one
\* (the first, the second or the last face)
ActiveSets(gr) ==
    {None} \cup {Some(Faces(gr) \ {f}) : f \in {0, 1, gr.num_faces - 1}}

\* the inputs on which the discretisation divides by no zero and, under the
\* alternative policy, takes the root of squares only
WellPosed(gr, par, aav) ==
    IF gr.dim = 0 THEN TRUE
    ELSE
       LET fnd == Find(gr)
           fc_cc(e) == VSub(gr.face_centers[fnd[e][1]], gr.cell_centers[fnd[e][2]])
           nk(e) == Contract(par.tensor[fnd[e][2]],
                       IF par.aperture.isNone THEN gr.face_normals[fnd[e][1]]
                       ELSE VScale(par.aperture.val[fnd[e][2]],
                                   gr.face_normals[fnd[e][1]]))
           ok == aav => \A e \in 1..Len(fnd) :
                            /\ RIsSquare(VDot(nk(e), nk(e)))
                            /\ RIsSquare(VDot(fc_cc(e), fc_cc(e)))
           tf == [e \in 1..Len(fnd) |-> t_face(gr, par, aav, fnd, e)]
           w == [e \in 1..Len(fnd) |-> RInv(tf[e])]
       IN  /\ ok
           /\ \A e \in 1..Len(fnd) : tf[e] # Zero
           /\ \A f \in Faces(gr) : Bincount(fnd, w, f) # Zero

EmptyData(aav) ==
    [flux |-> Absent, bound_flux |-> Absent, bound_pressure_cell |-> Absent,
     bound_pressure_face |-> Absent, Aavatsmark_transmissibilities |-> aav]

NoEdge == [kind |-> "none"]
NoCall == [op |-> "none", faces |-> None, discretize |-> FALSE, matrix |-> <<>>]

(***************************************************************************)
(* The single-domain specification.                                         *)
(***************************************************************************)
Init ==
    /\ g \in Grids
    /\ g_l = PointGrid
    /\ param \in Params(g)
    /\ \E aav \in BOOLEAN : /\ aav => ~param.aperture.isNone
                            /\ WellPosed(g, param, aav)
                            /\ data = EmptyData(aav)
    /\ data_edge = NoEdge
    /\ call = NoCall
    /\ ret = NoRet

Discretize ==
    \E faces \in ActiveSets(g) :
        /\ data' = discretize(g, data, param, faces)
        /\ call' = [op |-> "discretize", faces |-> faces, discretize |-> TRUE,
                    matrix |-> <<>>]
        /\ ret' = NoRet
        /\ UNCHANGED <<g, g_l, param, data_edge>>

MatrixRhs ==
    \E faces \in {None, Some(Faces(g) \ {0})}, disc \in BOOLEAN :
        LET out == matrix_rhs(g, data, param, faces, disc)
        IN  /\ disc \/ faces.isNone
            /\ data' = out.data
            /\ ret' = out.ret
            /\ call' = [op |-> "matrix_rhs", faces |-> faces, discretize |-> disc,
                    matrix |-> <<>>]
            /\ UNCHANGED <<g, g_l, param, data_edge>>

Next == Discretize \/ MatrixRhs

Spec == Init /\ [][Next]_vars

(***************************************************************************)
(* Properties of the single-domain discretisation.                          *)
(***************************************************************************)
Discretized == g.dim >= 1 /\ data.flux.kind = "matrix"

\* the last call ran discretize on g, with this active-face argument
JustDiscretized ==
    \/ call.op = "discretize"
    \/ call.op = "matrix_rhs" /\ call.discretize
Returned == call.op = "matrix_rhs" /\ ret.status = "ok"

NeumannFaces == {f \in get_boundary_faces(g) : param.bc.is_neu[f]}
InteriorFaces == {f \in Faces(g) : Cardinality(CellsOf(g, f)) = 2}
\* the orientation sign of a boundary face relative to its single cell
FaceSign(f) == g.cell_faces[f][CHOOSE c \in Cells(g) : g.cell_faces[f][c] # 0]
RowIsZero(A, i) == \A j \in 0..(A.nc - 1) : A.v[i][j] = Zero

\* C1 as stated: the matrix is div x flux, square of size num_cells, and the
\* right-hand side is -(div)^T x bound_flux x bc_val, for div the signed
\* faces-to-cells map (num_cells x num_faces)
C1_Original ==
    (Returned /\ g.dim >= 1) =>
        LET div == scalar_divergence(g)
        IN  /\ ret.M = MatMul(div, data.flux)
            /\ ret.M.nr = g.num_cells /\ ret.M.nc = g.num_cells
            /\ ret.rhs = MatMul(MatMul(MatNeg(Transpose(div)), data.bound_flux),
                                Col(g.num_faces, param.bc_val))

\* C1 (amended): matrix_rhs returns the square num_cells x num_cells matrix
\* with M[c][c2] = sum over faces f of cell_faces[f][c] * flux[f][c2], and
\* the right-hand side rhs[c] = -(sum over faces f, f2 of
\* cell_faces[f][c] * bound_flux[f][f2] * bc_val[f2]): the divergence itself,
\* not its transpose, multiplies the boundary-flux operator
C1_MatrixRhs ==
    (Returned /\ g.dim >= 1) =>
        /\ ret.M.kind = "matrix" /\ ret.M.nr = g.num_cells /\ ret.M.nc = g.num_cells
        /\ \A c \in Cells(g), c2 \in Cells(g) :
              LET term(f) == RMul(I2R(g.cell_faces[f][c]), data.flux.v[f][c2])
              IN  ret.M.v[c][c2] = RSum(term, 0, g.num_faces - 1)
        /\ ret.rhs.kind = "matrix" /\ ret.rhs.nr = g.num_cells /\ ret.rhs.nc = 1
        /\ \A c \in Cells(g) :
              LET bv(f) == LET t2(f2) == RMul(data.bound_flux.v[f][f2],
                                              param.bc_val[f2])
                           IN  RSum(t2, 0, g.num_faces - 1)
                  term(f) == RMul(I2R(g.cell_faces[f][c]), bv(f))
              IN  ret.rhs.v[c][0] = RNeg(RSum(term, 0, g.num_faces - 1))

C1_Witness ==
    /\ Returned /\ g.dim >= 1 /\ g.num_cells >= 2
    /\ \E c \in Cells(g) : ret.rhs.v[c][0] # Zero
    /\ \E c \in Cells(g), c2 \in Cells(g) : c # c2 /\ ret.M.v[c][c2] # Zero

\* C2 as stated: on every Neumann boundary face the boundary-flux
\* coefficient is exactly 1, whatever the orientation sign of the face, and
\* the face's row of the flux operator is zero
C2_Original ==
    Discretized =>
        \A f \in NeumannFaces :
            /\ data.bound_flux.v[f][f] = One
            /\ RowIsZero(data.flux, f)

\* C2 (amended): on every Neumann boundary face f the boundary-flux
\* coefficient is the orientation sign of f relative to its single cell (1
\* or -1), so the boundary-flux operator maps a prescribed value q to sgn*q
\* at f, and the face's row of the flux operator is zero
C2_NeumannFaces ==
    Discretized =>
        \A f \in NeumannFaces :
            /\ data.bound_flux.v[f][f] = I2R(FaceSign(f))
            /\ LET term(f2) == RMul(data.bound_flux.v[f][f2], param.bc_val[f2])
               IN  RSum(term, 0, g.num_faces - 1)
                       = RMul(I2R(FaceSign(f)), param.bc_val[f])
            /\ RowIsZero(data.flux, f)

C2_Witness ==
    /\ Discretized /\ call.op = "discretize"
    /\ \E f \in NeumannFaces : FaceSign(f) = -1 /\ param.bc_val[f] # Zero
    /\ \E f \in NeumannFaces : FaceSign(f) = 1

\* the half-transmissibility of face f seen from cell c under the default
\* policy: K_c (sgn * aperture_c * n_f) . (x_f - x_c) / |x_f - x_c|^2
HalfTransmissibility(f, c) ==
    LET a == IF param.aperture.isNone THEN One ELSE param.aperture.val[c]
        n == VScale(RMul(I2R(g.cell_faces[f][c]), a), g.face_normals[f])
        dx == VSub(g.face_centers[f], g.cell_centers[c])
    IN  RDiv(VDot(Contract(param.tensor[c], n), dx), VDot(dx, dx))

IsActive(f) == call.faces.isNone \/ f \in call.faces.val

\* C3: under the default policy, row f of the flux operator of an active
\* interior face f with cells c1, c2 holds sgn(f,c1)*t and sgn(f,c2)*t with
\* t = 1/(1/t1 + 1/t2), i.e. t * (t1 + t2) = t1 * t2, for t1, t2 the
\* half-transmissibilities of (f, c1) and (f, c2)
C3_HarmonicAverage ==
    (Discretized /\ call.op = "discretize"
                 /\ ~data.Aavatsmark_transmissibilities) =>
        \A f \in InteriorFaces :
            IsActive(f) =>
                \A c1 \in CellsOf(g, f) : \A c2 \in CellsOf(g, f) \ {c1} :
                    LET t1 == HalfTransmissibility(f, c1)
                        t2 == HalfTransmissibility(f, c2)
                    IN  RMul(data.flux.v[f][c1], RAdd(t1, t2))
                            = RMul(I2R(g.cell_faces[f][c1]), RMul(t1, t2))

C3_Witness ==
    /\ Discretized /\ call.op = "discretize" /\ ~call.faces.isNone
    /\ ~data.Aavatsmark_transmissibilities /\ ~param.aperture.isNone
    /\ \E f \in InteriorFaces :
          /\ IsActive(f)
          /\ \E c1 \in CellsOf(g, f), c2 \in CellsOf(g, f) :
                /\ HalfTransmissibility(f, c1) # HalfTransmissibility(f, c2)
                /\ data.flux.v[f][c1] # Zero

\* the scenario of C7: three unit cells, unit permeability, no aperture,
\* Dirichlet value 1 on the left face and 0 on the right face, assembled by
\* matrix_rhs with its own discretisation
C7_Scenario ==
    /\ g = Cart1D(3)
    /\ param.tensor = [c \in Cells(g) |-> Sym3(1, 0, 1, 1)]
    /\ param.aperture.isNone
    /\ ~data.Aavatsmark_transmissibilities
    /\ \A f \in get_boundary_faces(g) : param.bc.is_dir[f]
    /\ param.bc_val = [f \in Faces(g) |-> IF f = 0 THEN One ELSE Zero]
    /\ Returned /\ call.discretize

\* M * p = rhs for the cell pressures p
Solves(p) ==
    \A c \in Cells(g) :
        LET term(c2) == RMul(ret.M.v[c][c2], p[c2])
        IN  RSum(term, 0, g.num_cells - 1) = ret.rhs.v[c][0]

\* the flux over face f: (flux * p + bound_flux * bc_val)[f]
FaceFlux(p, f) ==
    LET tp(c) == RMul(data.flux.v[f][c], p[c])
        tb(f2) == RMul(data.bound_flux.v[f][f2], param.bc_val[f2])
    IN  RAdd(RSum(tp, 0, g.num_cells - 1), RSum(tb, 0, g.num_faces - 1))

\* C7 as stated: p = (3/4, 1/2, 1/4) solves the system and every face flux
\* has magnitude 1
C7_Original ==
    C7_Scenario =>
        LET p == [c \in Cells(g) |-> R(3 - c, 4)]
        IN  /\ Solves(p)
            /\ \A f \in Faces(g) : RAbs(FaceFlux(p, f)) = One

\* C7 (amended): in the scenario p = (5/6, 1/2, 1/6) solves M * p = rhs, and
\* the face fluxes flux * p + bound_flux * bc_val have magnitude 1/3 on each
\* of the 4 faces
C7_LinearProfile ==
    C7_Scenario =>
        LET p == [c \in Cells(g) |-> R(5 - 2 * c, 6)]
        IN  /\ Solves(p)
            /\ \A f \in Faces(g) : RAbs(FaceFlux(p, f)) = R(1, 3)

C7_Witness == C7_Scenario /\ ret.M.nr = 3 /\ ret.rhs.v[0][0] # Zero

\* C8: matrix_rhs with discretize=False on a record without 'flux' or
\* without 'bound_flux' fails, returning nothing, and leaves the record as
\* it was
C8_MissingDiscretization ==
    [][(/\ call'.op = "matrix_rhs" /\ ~call'.discretize
        /\ (data.flux.kind = "absent" \/ data.bound_flux.kind = "absent"))
          => (/\ ret'.status = "KeyError"
              /\ ret'.M = Absent /\ ret'.rhs = Absent
              /\ data' = data)]_vars

C8_Witness ==
    /\ call.op = "matrix_rhs" /\ ~call.discretize
    /\ ret.status = "KeyError"
    /\ data.flux.kind = "absent" /\ data.bound_flux.kind = "absent"

\* C9: whenever an active face subset F is declared, by discretize(faces=F)
\* or by matrix_rhs(faces=F) with discretize=True, every stored flux row of
\* a face outside F is zero
C9_InactiveRows ==
    (g.dim >= 1 /\ JustDiscretized /\ ~call.faces.isNone) =>
        \A f \in Faces(g) \ call.faces.val : RowIsZero(data.flux, f)

\* C10: discretize on a grid of dimension 0 sets 'flux' to the 1 x 1 zero
\* matrix and 'bound_flux' to the scalar 0 and changes no other key
C10_PointGrid ==
    [][(call'.op = "discretize" /\ g.dim = 0)
          => (/\ data'.flux.kind = "matrix"
              /\ data'.flux.nr = 1 /\ data'.flux.nc = 1
              /\ data'.flux.v[0][0] = Zero
              /\ data'.bound_flux.kind = "scalar"
              /\ data'.bound_flux.v[1] = Zero
              /\ data'.bound_pressure_cell = data.bound_pressure_cell
              /\ data'.bound_pressure_face = data.bound_pressure_face
              /\ data'.Aavatsmark_transmissibilities
                     = data.Aavatsmark_transmissibilities
              /\ param' = param)]_vars

C10_Witness ==
    /\ g.dim = 0 /\ call.op = "discretize" /\ ~call.faces.isNone
    /\ data.flux.kind = "matrix" /\ data.bound_flux.kind = "scalar"
    /\ data.bound_pressure_cell.kind = "absent"
    /\ ~param.aperture.isNone

(***************************************************************************)
(* TpfaCoupling.matrix_rhs, tpfa.py lines 277-385: the coupling of a grid   *)
(* g (g_h in the code, with record data) to g_l through a mortar grid.      *)
(***************************************************************************)
\* AbstractCoupling.create_block_matrix: zero blocks of the sizes dof
create_block_matrix(dof) ==
    [i \in DOMAIN dof |-> [j \in DOMAIN dof |-> ZeroMat(dof[i], dof[j])]]

BlockAdd(A, B) == [i \in DOMAIN A |-> [j \in DOMAIN A |-> MatAdd(A[i][j], B[i][j])]]

\* lines 316-318: the cell of each face that comes first in the find order
cells_h_of(gr) ==
    LET fnd == Find(gr)
    IN  [f \in Faces(gr) |-> fnd[FirstIndex(fnd, f)][2]]

\* lines 354 and 380
jump_not_transposed(check_P) == MatNeg(check_P)

jump(check_P) == MatNeg(Transpose(check_P))

\* line 334
inv_k_no_half(kn) == RInv(kn)

inv_k(kn) == RInv(RMul(I2R(2), kn))

\* lines 338-343: the diagonal of Eta * M
EtaM(gr, par, edge) ==
    LET mg == edge.mortar_grid
        hat_P == mg.high_to_mortar_avg
        cells_h == cells_h_of(gr)
        proj(m) == LET term(f) == RMul(hat_P.v[m][f], par.aperture.val[cells_h[f]])
                   IN  RSum(term, 0, gr.num_faces - 1)
    IN  Diags(mg.num_cells,
              [m \in 0..(mg.num_cells - 1) |->
                  RMul(RDiv(inv_k(edge.kn), proj(m)), RInv(mg.cell_volumes[m]))])

\* lines 348-374: the block matrix cc
coupling_cc(gr, grl, d, par, edge) ==
    LET mg == edge.mortar_grid
        hat_P == mg.high_to_mortar_avg
        check_P == mg.low_to_mortar_avg
        div_h == scalar_divergence(gr)
        cc0 == create_block_matrix(<<ndof(gr), ndof(grl), mg.num_cells>>)
        mortar_to_bc == Times(d.bound_flux, Transpose(hat_P))
        hat_P_to_mortar == Times(hat_P, d.bound_pressure_cell)
        trace == Times(Times(hat_P, d.bound_pressure_face), Transpose(hat_P))
        cc22 == MatSub(MatAdd(cc0[3][3], trace), EtaM(gr, par, edge))
    IN  [cc0 EXCEPT ![1][3] = Times(div_h, mortar_to_bc),
                    ![2][3] = jump(check_P),
                    ![3][1] = hat_P_to_mortar,
                    ![3][2] = MatNeg(check_P),
                    ![3][3] = cc22]

\* the interface record and the returned value of TpfaCoupling.matrix_rhs
coupling_matrix_rhs(matrix, gr, grl, d, par, edge) ==
    IF \/ d.bound_pressure_cell.kind = "absent"
       \/ d.bound_pressure_face.kind = "absent"
       \/ d.bound_flux.kind = "absent"
    THEN [edge |-> edge, ret |-> KeyError]
    ELSE IF par.aperture.isNone
    THEN [edge |-> edge, ret |-> Failure("TypeError")]
    ELSE LET mg == edge.mortar_grid
             cc == coupling_cc(gr, grl, d, par, edge)
         IN  [edge |-> [edge EXCEPT
                  !.mortar_to_bc = Times(d.bound_flux,
                                         Transpose(mg.high_to_mortar_avg)),
                  !.jump = jump(mg.low_to_mortar_avg),
                  !.hat_P_to_mortar = cc[3][1],
                  !.check_P_to_mortar = mg.low_to_mortar_avg,
                  !.mortar_weight = cc[3][3]],
              ret |-> [NoRet EXCEPT !.status = "ok", !.cc = cc,
                                    !.out = BlockAdd(matrix, cc)]]

(***************************************************************************)
(* Inputs of the mortar coupling.                                           *)
(***************************************************************************)
\* a projection matrix from its rows: rows[m] maps a column to a rational
Proj(nr, nc, w(_, _)) == Mat(nr, nc, w)

\* the mortar grids of a grid, each with the lower-dimensional grid it joins;
\* the interface lies on the boundary faces a and b: a mortar cell per face;
\* one mortar cell averaging both faces; two mortar cells sharing face a
MortarSetups(gr) ==
    LET nf == gr.num_faces
        a == 1
        b == IF gr.dim = 1 THEN 3 ELSE 2
        perFace(m, f) == IF (m = 0 /\ f = a) \/ (m = 1 /\ f = b) THEN One ELSE Zero
        averaged(m, f) == IF f \in {a, b} THEN R(1, 2) ELSE Zero
        shared(m, f) == IF f = a THEN One ELSE Zero
        ones(m, c) == One
        ident(m, c) == IF m = c THEN One ELSE Zero
    IN  {[g_l |-> PointGrid,
          mg |-> [num_cells |-> 2, cell_volumes |-> [m \in 0..1 |-> I2R(1)],
                  high_to_mortar_avg |-> Proj(2, nf, perFace),
                  low_to_mortar_avg |-> Proj(2, 1, ones)]],
         [g_l |-> PointGrid,
          mg |-> [num_cells |-> 1, cell_volumes |-> [m \in 0..0 |-> I2R(2)],
                  high_to_mortar_avg |-> Proj(1, nf, averaged),
                  low_to_mortar_avg |-> Proj(1, 1, ones)]],
         [g_l |-> Cart1D(2),
          mg |-> [num_cells |-> 2, cell_volumes |-> [m \in 0..1 |-> R(1, 2)],
                  high_to_mortar_avg |-> Proj(2, nf, shared),
                  low_to_mortar_avg |-> Proj(2, 2, ident)]]}

MortarEdge(mg, kn) ==
    [kind |-> "mortar", mortar_grid |-> mg, kn |-> I2R(kn),
     mortar_to_bc |-> Absent, jump |-> Absent, hat_P_to_mortar |-> Absent,
     check_P_to_mortar |-> Absent, mortar_weight |-> Absent]

\* the global block matrix assembled so far: empty, or identity blocks on
\* the diagonal
GlobalMatrices(dof) ==
    LET ident(n) == Diags(n, [i \in 0..(n - 1) |-> One])
    IN  {create_block_matrix(dof),
         [i \in DOMAIN dof |-> [j \in DOMAIN dof |->
             IF i = j THEN ident(dof[i]) ELSE ZeroMat(dof[i], dof[j])]]}

InitCoupling ==
    /\ g \in {Split1D, Tri2D}
    /\ param \in Params(g)
    /\ param.bc_val = [f \in Faces(g) |-> IF f = 0 THEN One ELSE Zero]
    /\ \E aav \in BOOLEAN : /\ aav => ~param.aperture.isNone
                            /\ WellPosed(g, param, aav)
                            /\ data = EmptyData(aav)
    /\ \E setup \in MortarSetups(g), kn \in 1..MaxKn :
          /\ g_l = setup.g_l
          /\ data_edge = MortarEdge(setup.mg, kn)
    /\ call = NoCall
    /\ ret = NoRet

DiscretizeHigh ==
    \E faces \in {None, Some(Faces(g) \ {1})} :
        /\ data' = discretize(g, data, param, faces)
        /\ call' = [op |-> "discretize", faces |-> faces, discretize |-> TRUE,
                    matrix |-> <<>>]
        /\ ret' = NoRet
        /\ UNCHANGED <<g, g_l, param, data_edge>>

CouplingMatrixRhs ==
    \E matrix \in GlobalMatrices(<<ndof(g), ndof(g_l), data_edge.mortar_grid.num_cells>>) :
        LET out == coupling_matrix_rhs(matrix, g, g_l, data, param, data_edge)
        IN  /\ data_edge' = out.edge
            /\ ret' = out.ret
            /\ call' = [op |-> "coupling", faces |-> None, discretize |-> FALSE,
                        matrix |-> matrix]
            /\ UNCHANGED <<g, g_l, param, data>>

NextCoupling == DiscretizeHigh \/ CouplingMatrixRhs

SpecCoupling == InitCoupling /\ [][NextCoupling]_vars

(***************************************************************************)
(* Claims about the mortar coupling, stated on the states of SpecCoupling.  *)
(***************************************************************************)
Coupled == call.op = "coupling" /\ ret.status = "ok"

MortarCells == 0..(data_edge.mortar_grid.num_cells - 1)

\* the faces of g a mortar cell is projected from
Reached == {f \in Faces(g) :
               \E m \in MortarCells :
                   data_edge.mortar_grid.high_to_mortar_avg.v[m][f] # Zero}

\* the aperture of the cells of g next to the interface, averaged to m
ProjectedAperture(m) ==
    LET hat_P == data_edge.mortar_grid.high_to_mortar_avg
        term(f) == IF hat_P.v[m][f] = Zero THEN Zero
                   ELSE RMul(hat_P.v[m][f],
                             param.aperture.val[CHOOSE c \in CellsOf(g, f) : TRUE])
    IN  RSum(term, 0, g.num_faces - 1)

SelfTerm(m) ==
    RNeg(RDiv(RDiv(R(1, 2 * data_edge.kn[1]), ProjectedAperture(m)),
              data_edge.mortar_grid.cell_volumes[m]))

\* the pressure trace that the mortar flux of cell m2 induces at cell m1
TraceTerm(m1, m2) ==
    LET hat_P == data_edge.mortar_grid.high_to_mortar_avg
        term(f) == RMul(RMul(hat_P.v[m1][f], data.bound_pressure_face.v[f][f]),
                        hat_P.v[m2][f])
    IN  RSum(term, 0, g.num_faces - 1)

IsBlock(B, nr, nc) == B.kind = "matrix" /\ B.nr = nr /\ B.nc = nc

\* C4, as stated: the (mortar, mortar) block added to the global matrix and
\* stored under 'mortar_weight' is the diagonal self-term
\* -(1/(2 kn)) / (projected aperture) / (mortar cell volume) and nothing else.
C4_Original ==
    Coupled =>
        LET B == ret.cc[3][3]
        IN  /\ IsBlock(B, Cardinality(MortarCells), Cardinality(MortarCells))
            /\ data_edge.mortar_weight = B
            /\ ret.out[3][3] = MatAdd(call.matrix[3][3], B)
            /\ \A m1 \in MortarCells, m2 \in MortarCells :
                  B.v[m1][m2] = IF m1 = m2 THEN SelfTerm(m1) ELSE Zero

\* C4, amended: the (mortar, mortar) block added to the global matrix and
\* stored under 'mortar_weight' is the projected boundary-pressure operator
\* hat_P * bound_pressure_face * hat_P^T plus the diagonal self-term
\* -(1/(2 kn)) / (projected aperture) / (mortar cell volume); only the
\* self-term depends on kn.
C4_MortarBlock ==
    Coupled =>
        LET B == ret.cc[3][3]
        IN  /\ IsBlock(B, Cardinality(MortarCells), Cardinality(MortarCells))
            /\ data_edge.mortar_weight = B
            /\ ret.out[3][3] = MatAdd(call.matrix[3][3], B)
            /\ \A m1 \in MortarCells, m2 \in MortarCells :
                  B.v[m1][m2] = RAdd(TraceTerm(m1, m2),
                                     IF m1 = m2 THEN SelfTerm(m1) ELSE Zero)

\* the coupling has run with kn = 2 on a global matrix that is not empty, on
\* a mortar grid whose cells share a face, and the block has an entry off
\* the diagonal
C4_Witness ==
    /\ Coupled
    /\ data_edge.kn = I2R(2)
    /\ call.matrix[3][3].v[0][0] = One
    /\ \E m1 \in MortarCells, m2 \in MortarCells :
          m1 # m2 /\ ret.cc[3][3].v[m1][m2] # Zero

\* C5: the (low, mortar) block is the transpose of the (mortar, low) block
\* for every mortar projection, and the (high, mortar) block is the
\* transpose of the (mortar, high) block when every face of the
\* higher-dimensional grid reached by the projection is a Neumann boundary
\* face.
C5_BlockTransposes ==
    Coupled =>
        LET cc == ret.cc
            nm == Cardinality(MortarCells)
        IN  /\ IsBlock(cc[2][3], ndof(g_l), nm) /\ IsBlock(cc[3][2], nm, ndof(g_l))
            /\ \A l \in Cells(g_l), m \in MortarCells :
                  cc[2][3].v[l][m] = cc[3][2].v[m][l]
            /\ Reached \subseteq NeumannFaces =>
                  /\ IsBlock(cc[1][3], ndof(g), nm) /\ IsBlock(cc[3][1], nm, ndof(g))
                  /\ \A c \in Cells(g), m \in MortarCells :
                        cc[1][3].v[c][m] = cc[3][1].v[m][c]

\* the coupling has run where the projection reaches Neumann boundary faces
\* only, one of them with a negative orientation sign, and the blocks are
\* not zero
C5_Witness ==
    /\ Coupled
    /\ Reached \subseteq NeumannFaces
    /\ \E f \in Reached : FaceSign(f) = -1
    /\ \E c \in Cells(g), m \in MortarCells : ret.cc[1][3].v[c][m] # Zero
    /\ \E l \in Cells(g_l), m \in MortarCells : ret.cc[2][3].v[l][m] # Zero

(***************************************************************************)
(* TpfaCouplingDFN.matrix_rhs, tpfa.py lines 394-470: the coupling of g     *)
(* (g_h in the code) to g_l through a face-to-cell incidence map, given as  *)
(* the set of its entries <<cell of g_l, face of g>>.                       *)
(***************************************************************************)
\* line 417: sps.find of the incidence map, column by column
RECURSIVE FindEntries(_, _, _, _)
FindEntries(S, nl, nf, k) ==
    IF k >= nl * nf THEN <<>>
    ELSE LET f == k \div nl
             l == k % nl
         IN  (IF <<l, f>> \in S THEN <<<<l, f>>>> ELSE <<>>)
                 \o FindEntries(S, nl, nf, k + 1)

\* lines 418-445: the transmissibility of the entry <<l, f>>
dfn_t(gr, par, aavatsmark, l, f) ==
    LET fnd == Find(gr)
        ind == FirstIndex(fnd, f)
        c == fnd[ind][2]
        sgn_h == fnd[ind][3]
        n == VScale(I2R(sgn_h), gr.face_normals[f])
        fc_cc == VSub(gr.face_centers[f], gr.cell_centers[c])
        nk == Contract(par.tensor[c], n)
        t_face_h == IF aavatsmark THEN RSqrt(VDot(nk, nk)) ELSE VDot(nk, fc_cc)
        dist == IF aavatsmark THEN RSqrt(VDot(fc_cc, fc_cc)) ELSE VDot(fc_cc, fc_cc)
    IN  RDiv(RMul(t_face_h, par.aperture.val[c]), dist)

\* line 452: the data of the off-diagonal block
dfn_offdiag_plus(t) == t

dfn_offdiag(t) == RNeg(t)

HStack(A, B) ==
    LET e(i, j) == IF j < A.nc THEN A.v[i][j] ELSE B.v[i][j - A.nc]
    IN  Mat(A.nr, A.nc + B.nc, e)

\* lines 448-460: the block matrix cc
dfn_cc(gr, grl, par, edge) ==
    LET ent == FindEntries(edge.face_cells, grl.num_cells, gr.num_faces, 0)
        E == 1..Len(ent)
        cells_h == cells_h_of(gr)
        t == [e \in E |-> dfn_t(gr, par, edge.Aavatsmark_transmissibilities,
                                ent[e][1], ent[e][2])]
        low_high(l, c) ==
            LET term(e) == IF ent[e][1] = l /\ cells_h[ent[e][2]] = c
                           THEN dfn_offdiag(t[e]) ELSE Zero
            IN  RSum(term, 1, Len(ent))
        high_high(c1, c2) ==
            LET term(e) == IF cells_h[ent[e][2]] = c1 /\ c1 = c2 THEN t[e] ELSE Zero
            IN  RSum(term, 1, Len(ent))
        low_low(l1, l2) ==
            LET term(e) == IF ent[e][1] = l1 /\ l1 = l2 THEN t[e] ELSE Zero
            IN  RSum(term, 1, Len(ent))
        cc10 == Mat(ndof(grl), ndof(gr), low_high)
    IN  <<<<Mat(ndof(gr), ndof(gr), high_high), Transpose(cc10)>>,
          <<cc10, Mat(ndof(grl), ndof(grl), low_low)>>>>

\* lines 463-467: the flux-recovery operator
coupling_flux(gr, grl, edge, cc) ==
    LET ent == FindEntries(edge.face_cells, grl.num_cells, gr.num_faces, 0)
        fnd == Find(gr)
        cells_h == cells_h_of(gr)
        c2f(f, c) ==
            LET term(e) == IF ent[e][2] = f /\ cells_h[f] = c
                           THEN I2R(fnd[FirstIndex(fnd, f)][3]) ELSE Zero
            IN  RSum(term, 1, Len(ent))
        cells2faces == Mat(gr.num_faces, gr.num_cells, c2f)
    IN  HStack(Times(cells2faces, cc[1][1]), Times(cells2faces, cc[1][2]))

\* the interface record and the returned value of TpfaCouplingDFN.matrix_rhs
dfn_matrix_rhs(gr, grl, par, edge) ==
    IF par.aperture.isNone
    THEN [edge |-> edge, ret |-> Failure("TypeError")]
    ELSE LET cc == dfn_cc(gr, grl, par, edge)
         IN  [edge |-> [edge EXCEPT
                  !.coupling_flux = coupling_flux(gr, grl, edge, cc),
                  !.coupling_discretization = cc],
              ret |-> [NoRet EXCEPT !.status = "ok", !.cc = cc]]

(***************************************************************************)
(* Inputs of the DFN coupling.                                              *)
(***************************************************************************)
\* the lower-dimensional grids a grid may be joined to
LowerGrids(gr) == IF gr.dim = 1 THEN {PointGrid} ELSE {Cart1D(1), Cart1D(2)}

\* the incidence maps with at most MaxLinks entries
FaceCellMaps(gr, grl) ==
    {S \in SUBSET (Cells(grl) \X Faces(gr)) : Cardinality(S) <= MaxLinks}

DFNEdge(S, aav) ==
    [kind |-> "dfn", face_cells |-> S, Aavatsmark_transmissibilities |-> aav,
     coupling_flux |-> Absent, coupling_discretization |-> <<>>]

\* the alternative policy is taken where its roots are exact
ExactNorms(gr, par, S) ==
    \A e \in S :
        LET fnd == Find(gr)
            f == e[2]
            c == fnd[FirstIndex(fnd, f)][2]
            fc_cc == VSub(gr.face_centers[f], gr.cell_centers[c])
            nk == Contract(par.tensor[c], gr.face_normals[f])
        IN  RIsSquare(VDot(nk, nk)) /\ RIsSquare(VDot(fc_cc, fc_cc))

InitDFN ==
    /\ g \in {Split1D, Tri2D}
    /\ g_l \in LowerGrids(g)
    /\ param \in Params(g)
    /\ param.bc_val = [f \in Faces(g) |-> IF f = 0 THEN One ELSE Zero]
    /\ \A f \in get_boundary_faces(g) : param.bc.is_neu[f]
    /\ data = EmptyData(FALSE)
    /\ \E S \in FaceCellMaps(g, g_l), aav \in BOOLEAN :
          /\ aav => ExactNorms(g, param, S)
          /\ data_edge = DFNEdge(S, aav)
    /\ call = NoCall
    /\ ret = NoRet

DFNMatrixRhs ==
    LET out == dfn_matrix_rhs(g, g_l, param, data_edge)
    IN  /\ data_edge' = out.edge
        /\ ret' = out.ret
        /\ call' = [op |-> "dfn", faces |-> None, discretize |-> FALSE,
                    matrix |-> <<>>]
        /\ UNCHANGED <<g, g_l, param, data>>

NextDFN == DFNMatrixRhs

SpecDFN == InitDFN /\ [][NextDFN]_vars

(***************************************************************************)
(* Claims about the DFN coupling, stated on the states of SpecDFN.          *)
(***************************************************************************)
DFNCoupled == call.op = "dfn" /\ ret.status = "ok"

IsDiagonal(B, n) ==
    /\ IsBlock(B, n, n)
    /\ \A i \in 0..(n - 1), j \in 0..(n - 1) : i # j => B.v[i][j] = Zero

DFNTransposes ==
    LET cc == ret.cc
    IN  /\ IsBlock(cc[1][2], ndof(g), ndof(g_l))
        /\ IsBlock(cc[2][1], ndof(g_l), ndof(g))
        /\ \A c \in Cells(g), l \in Cells(g_l) : cc[1][2].v[c][l] = cc[2][1].v[l][c]
        /\ IsDiagonal(cc[1][1], ndof(g))
        /\ IsDiagonal(cc[2][2], ndof(g_l))

\* the sum of the row i of A, of its entries or of their magnitudes
RowSum(A, i) == LET term(j) == A.v[i][j] IN RSum(term, 0, A.nc - 1)
RowAbsSum(A, i) == LET term(j) == RAbs(A.v[i][j]) IN RSum(term, 0, A.nc - 1)

\* C6, as stated: cc[0,1] is the transpose of cc[1,0], cc[0,0] and cc[1,1]
\* are diagonal, and each diagonal entry is the sum of the magnitudes of the
\* entries of the off-diagonal block in its row.
C6_Original ==
    DFNCoupled =>
        /\ DFNTransposes
        /\ \A c \in Cells(g) : ret.cc[1][1].v[c][c] = RowAbsSum(ret.cc[1][2], c)
        /\ \A l \in Cells(g_l) : ret.cc[2][2].v[l][l] = RowAbsSum(ret.cc[2][1], l)

\* C6, amended: cc[0,1] is the transpose of cc[1,0], cc[0,0] and cc[1,1] are
\* diagonal, and each diagonal entry is minus the sum of the signed entries
\* of the off-diagonal block in its row.
C6_DFNBlocks ==
    DFNCoupled =>
        /\ DFNTransposes
        /\ \A c \in Cells(g) : ret.cc[1][1].v[c][c] = RNeg(RowSum(ret.cc[1][2], c))
        /\ \A l \in Cells(g_l) : ret.cc[2][2].v[l][l] = RNeg(RowSum(ret.cc[2][1], l))

\* the DFN coupling has run on a map with two entries, one of them with a
\* negative transmissibility, and stored its blocks
C6_Witness ==
    /\ DFNCoupled
    /\ Cardinality(data_edge.face_cells) = 2
    /\ data_edge.coupling_discretization = ret.cc
    /\ \E c \in Cells(g), l \in Cells(g_l) :
          /\ ret.cc[1][2].v[c][l][1] > 0
          /\ ret.cc[1][1].v[c][c] # RowAbsSum(ret.cc[1][2], c)

=============================================================================
